---- MODULE Spec2Model ----
(***************************************************************************)
(* Verification model of the exemplar manager of inclearn/models/icarl.py, *)
(* of the triplet loss and its samplers of inclearn/lib/losses/metrics.py  *)
(* and of the regularizers of inclearn/lib/losses/regularizations.py.      *)
(*                                                                         *)
(* Feature vectors are 2-d integer vectors.  A raw feature r of the        *)
(* extractor has an integer Euclidean norm, so that the L2-normalised      *)
(* feature F.normalize(r) = r / |r| is represented exactly by the integer  *)
(* vector Unit * r / |r| (the true value multiplied by Unit).  A vector    *)
(* that is only ever used after F.normalize (a direction) is represented   *)
(* by any positive multiple of it; distances between unit vectors are      *)
(* compared exactly by integer arithmetic on dot products.                 *)
(***************************************************************************)
EXTENDS Integers, Sequences, FiniteSets, TLC

VARIABLES
    \* ---- ICarl learner (icarl.py) ----
    _k,              \* self._k = args["memory_size"]
    _task_size,      \* self._task_size (= args["increment"])
    _n_classes,      \* self._n_classes
    _task,           \* self._task
    _examplars,      \* self._examplars : class index -> list of sample indexes
    _means,          \* self._means : None or one row per class
    phase,           \* position of the task loop
    task_ends,       \* history: _examplars at each completed task end
    last_op,         \* last operation that ran
    ret,             \* what the last operation returned or raised
    \* ---- herding of one class (icarl.py, _build_examplars inner loop) ----
    h_pc, h_raw, h_idxes, h_m, h_out,
    \* ---- triplet samplers (metrics.py) ----
    t_pc, t_targets, t_features, t_distance, t_semihard, t_out,
    \* ---- triplet loss (metrics.py, triplet_loss) ----
    l_sampling,      \* sampling_config["type"]
    l_aggreg,        \* aggreg
    l_margin,        \* margin, in units of 1 / DistScale
    l_factor,        \* factor
    l_ranking,       \* ranking
    l_loss,          \* what triplet_loss returned or raised
    \* ---- global_orthogonal_regularization (regularizations.py) ----
    g_pc, g_features, g_targets, g_new_classes_index, g_sampling, g_factor,
    g_pairs,         \* positive_indexes and negative_indexes, pair by pair
    g_loss,          \* what the call returned or raised
    \* ---- double_margin_constrastive_regularization (regularizations.py) ----
    d_pc, d_weights, d_old_weights, d_K, d_current_index,
    d_config,        \* the keyword arguments of the call
    d_out            \* the masks and margins computed, the value returned

icarlVars == <<_k, _task_size, _n_classes, _task, _examplars, _means, phase,
               task_ends, last_op, ret>>
herdVars == <<h_pc, h_raw, h_idxes, h_m, h_out>>
tripletVars == <<t_pc, t_targets, t_features, t_distance, t_semihard, t_out>>
lossVars == <<l_sampling, l_aggreg, l_margin, l_factor, l_ranking, l_loss>>
gorVars == <<g_pc, g_features, g_targets, g_new_classes_index, g_sampling,
             g_factor, g_pairs, g_loss>>
dmrVars == <<d_pc, d_weights, d_old_weights, d_K, d_current_index, d_config, d_out>>
vars == <<icarlVars, herdVars, tripletVars, lossVars, gorVars, dmrVars>>

\* self._means is None until the first _build_examplars completes; afterwards
\* it is a matrix with one row per class.
None == [built |-> FALSE, rows |-> <<>>]
\* What an operation returned or raised: for _classify, the lengths of the
\* returned ypred and ytrue arrays.
Outcome(status, ypred, ytrue) == [status |-> status, ypred |-> ypred, ytrue |-> ytrue]
NoOutcome == Outcome("none", 0, 0)
\* What a triplet sampler returned (three index sequences) or raised.
Triplets(status, anchor, pos, neg) ==
    [status |-> status, anchor_indexes |-> anchor, pos_indexes |-> pos,
     neg_indexes |-> neg]
NoTriplets == Triplets("none", <<>>, <<>>, <<>>)
Raised(error) == Triplets(error, <<>>, <<>>, <<>>)
\* A scalar loss: NaN, or the exact fraction num / den (den >= 1).
NaN == [nan |-> TRUE, num |-> 0, den |-> 1]
Rat(num, den) == [nan |-> FALSE, num |-> num, den |-> den]
\* What a loss function returned (status "ok" and a value) or raised.
Loss(status, value) == [status |-> status, value |-> value]
NoLoss == Loss("none", Rat(0, 1))

\* ------------------------------------------------------------------------
\* Bounds
\* ------------------------------------------------------------------------
MaxSamples == 3      \* samples of one class
MaxMemory == 4       \* memory_size ranges over 0..MaxMemory
MaxIncrement == 2    \* classes per task range over 1..MaxIncrement
MaxTasks == 3        \* number of incremental tasks
MaxBatch == 3        \* batch size of the random sampler
MaxBatch3 == 9       \* batch size of the "3third" sampler
MaxBatchF == 4       \* batch size of the facenet sampler
MaxLossBatch == 3    \* batch size of triplet_loss
MaxRandomBatch == 2  \* batch size of triplet_loss with random sampling
MaxGorBatch == 3     \* batch size of global_orthogonal_regularization
MaxRows == 6         \* rows of the weight matrix (classes * centers)
MaxOldRows == 4      \* rows of the previous-task weight snapshot

\* ------------------------------------------------------------------------
\* Sequences and vectors
\* ------------------------------------------------------------------------
Range(s) == {s[i] : i \in 1..Len(s)}
Min(a, b) == IF a < b THEN a ELSE b
Perms(S) == {p \in [1..Cardinality(S) -> S] : Range(p) = S}
Take(s, n) == SubSeq(s, 1, Min(n, Len(s)))
IsPrefix(s, t) == Len(s) <= Len(t) /\ \A i \in 1..Len(s) : s[i] = t[i]

Dot(a, b) == a[1] * b[1] + a[2] * b[2]
VAdd(a, b) == <<a[1] + b[1], a[2] + b[2]>>
Norm2(a) == Dot(a, a)
IsZero(a) == a = <<0, 0>>
RECURSIVE VSum(_)
VSum(s) == IF s = <<>> THEN <<0, 0>> ELSE VAdd(s[1], VSum(Tail(s)))

\* Raw outputs of the features extractor: integer norm 5 or 10.
RawFeatures == {<<5, 0>>, <<10, 0>>, <<-8, 6>>, <<3, 4>>, <<0, 5>>, <<0, -10>>}
ISqrt(n) == CHOOSE r \in 0..n : r * r = n
\* The scale of normalised features: the least u for which u * r / |r| is an
\* integer vector for every raw feature r.
IsScale(u) ==
    \A r \in RawFeatures : \A i \in 1..2 : (u * r[i]) % ISqrt(Norm2(r)) = 0
Unit == CHOOSE u \in 1..10 : IsScale(u) /\ \A v \in 1..(u - 1) : ~IsScale(v)

\* F.normalize(v) of a raw feature, scaled by Unit.
Normalize(v) ==
    LET n == ISqrt(Norm2(v))
    IN IF n = 0 THEN <<0, 0>> ELSE <<(Unit * v[1]) \div n, (Unit * v[2]) \div n>>

\* p1 / sqrt(x1) > p2 / sqrt(x2), for x1, x2 > 0.
RatioGreater(p1, x1, p2, x2) ==
    IF p1 >= 0
    THEN IF p2 >= 0 THEN p1 * p1 * x2 > p2 * p2 * x1 ELSE TRUE
    ELSE IF p2 >= 0 THEN FALSE ELSE p1 * p1 * x2 < p2 * p2 * x1

\* ||c - n(a)||^2 < ||c - n(b)||^2 where c = F.normalize(center) and
\* n(x) = F.normalize(x) (zero for x = 0): for unit vectors the squared
\* distance is 2 - 2 cos, for n(x) = 0 it is ||c||^2.
NormalizedDistLess(center, a, b) ==
    IF IsZero(center) THEN IsZero(a) /\ ~IsZero(b)
    ELSE IF IsZero(a) /\ IsZero(b) THEN FALSE
    ELSE IF IsZero(a)
         THEN LET p == Dot(center, b)
              IN p <= 0 \/ 4 * p * p < Norm2(center) * Norm2(b)
    ELSE IF IsZero(b)
         THEN LET p == Dot(center, a)
              IN p > 0 /\ 4 * p * p > Norm2(center) * Norm2(a)
    ELSE RatioGreater(Dot(center, a), Norm2(a), Dot(center, b), Norm2(b))

\* ------------------------------------------------------------------------
\* icarl.py: _extract_features, _remove_row, _get_closest_features
\* ------------------------------------------------------------------------
\* features = F.normalize(features); mean = F.normalize(torch.mean(features))
\* (the mean is a direction: the sum of the raw features represents it).
ExtractFeatures(raw, idxes) ==
    [features |-> [j \in 1..Len(raw) |-> Normalize(raw[j])],
     mean |-> VSum(raw),
     idxes |-> idxes]

\* Mutant: the slice after the selected row starts one row too late.
RemoveRow_Mut(s, row_idx) ==
    SubSeq(s, 1, row_idx) \o SubSeq(s, row_idx + 2, Len(s))

RemoveRow(s, row_idx) ==
    SubSeq(s, 1, row_idx - 1) \o SubSeq(s, row_idx + 1, Len(s))

\* Mutant: argmax instead of argmin.
GetClosestFeatures_Mut(center, features) ==
    CHOOSE j \in 1..Len(features) :
        /\ \A l \in 1..Len(features) : ~NormalizedDistLess(center, features[j], features[l])
        /\ \A l \in 1..(j - 1) : NormalizedDistLess(center, features[l], features[j])

\* distances.argmin(): the first row of `features` whose normalised value is
\* closest to `center` (rows are 1-based here).
GetClosestFeatures(center, features) ==
    CHOOSE j \in 1..Len(features) :
        /\ \A l \in 1..Len(features) : ~NormalizedDistLess(center, features[l], features[j])
        /\ \A l \in 1..(j - 1) : NormalizedDistLess(center, features[j], features[l])

\* The herding loop of _build_examplars for one class (lines 309-315).
\* (features + examplars_mean) / (i + 1) is passed to F.normalize inside
\* _get_closest_features, which cancels the positive divisor i + 1.
RECURSIVE HerdLoop(_, _, _, _, _, _, _)
HerdLoop(features, idxes, class_mean, examplars_mean, examplars_idxes, i, rounds) ==
    IF i >= rounds THEN examplars_idxes
    ELSE LET idx == GetClosestFeatures(class_mean,
                        [j \in 1..Len(features) |-> VAdd(features[j], examplars_mean)])
         IN HerdLoop(RemoveRow(features, idx), RemoveRow(idxes, idx), class_mean,
                     VAdd(examplars_mean, features[idx]),
                     Append(examplars_idxes, idxes[idx]), i + 1, rounds)

Herd(raw, loader_idxes, m) ==
    LET e == ExtractFeatures(raw, loader_idxes)
    IN HerdLoop(e.features, e.idxes, e.mean, <<0, 0>>, <<>>, 0,
                Min(m, Len(e.features)))

\* ------------------------------------------------------------------------
\* Specification SpecHerd: the herding loop on one new class
\* ------------------------------------------------------------------------
\* Dataset layout: the j-th sample of class c has dataset index 10 * c + j.
\* The loader restricted to a class yields its samples in any order.
SampleIdx(c, j) == 10 * c + j
ClassIdxes(c, n) == {SampleIdx(c, j) : j \in 1..n}
LoaderOrders(c, n) == Perms(ClassIdxes(c, n))

IcarlIdle ==
    /\ _k = 0 /\ _task_size = 1 /\ _n_classes = 1 /\ _task = 0
    /\ _examplars = <<>> /\ _means = None /\ phase = "idle"
    /\ task_ends = <<>> /\ last_op = "none"
    /\ ret = NoOutcome
HerdIdle ==
    h_pc = "idle" /\ h_raw = <<>> /\ h_idxes = <<>> /\ h_m = 0 /\ h_out = <<>>
TripletIdle ==
    /\ t_pc = "idle" /\ t_targets = <<>> /\ t_features = <<>>
    /\ t_distance = "none" /\ t_semihard = FALSE /\ t_out = NoTriplets

LossIdle ==
    /\ l_sampling = "none" /\ l_aggreg = "none" /\ l_margin = 0 /\ l_factor = 0
    /\ l_ranking = FALSE /\ l_loss = NoLoss
GorIdle ==
    /\ g_pc = "idle" /\ g_features = <<>> /\ g_targets = <<>>
    /\ g_new_classes_index = 0 /\ g_sampling = "none" /\ g_factor = 0
    /\ g_pairs = <<>> /\ g_loss = NoLoss
DmrIdle ==
    /\ d_pc = "idle" /\ d_weights = <<>> /\ d_old_weights = <<>> /\ d_K = 1
    /\ d_current_index = 0 /\ d_config = <<>> /\ d_out = <<>>

InitHerd ==
    /\ IcarlIdle /\ TripletIdle /\ LossIdle /\ GorIdle /\ DmrIdle
    /\ h_pc = "start"
    /\ h_out = <<>>
    /\ h_m \in 0..MaxMemory
    /\ \E n \in 1..MaxSamples :
          /\ h_raw \in [1..n -> RawFeatures]
          /\ h_idxes \in LoaderOrders(1, n)

\* One execution of the body of the new-class loop of _build_examplars.
HerdClass ==
    /\ h_pc = "start"
    /\ h_out' = Herd(h_raw, h_idxes, h_m)
    /\ h_pc' = "done"
    /\ UNCHANGED <<h_raw, h_idxes, h_m, icarlVars, tripletVars,
                   lossVars, gorVars, dmrVars>>

NextHerd == HerdClass
SpecHerd == InitHerd /\ [][NextHerd]_vars

\* ---- C5 ----------------------------------------------------------------
HPos(idx) == CHOOSE j \in 1..Len(h_idxes) : h_idxes[j] = idx
HFeat(idx) == Normalize(h_raw[HPos(idx)])
HClassMean == VSum([j \in 1..Len(h_raw) |-> h_raw[j]])
HSelectedSum(i) == VSum([l \in 1..(i - 1) |-> HFeat(h_out[l])])
HRemaining(i) == Range(h_idxes) \ {h_out[l] : l \in 1..(i - 1)}

\* a * sqrt(s) < b
SqrtLess(a, s, b) ==
    IF b <= 0 THEN a < 0 /\ a * a * s > b * b
    ELSE a <= 0 \/ a * a * s < b * b

\* ||c - a/(Unit*k)||^2 < ||c - b/(Unit*k)||^2 with c = F.normalize(center):
\* the distance of the class mean to the average itself (not normalised).
AverageDistLess(center, a, b, k) ==
    IF IsZero(center) THEN Norm2(a) < Norm2(b)
    ELSE SqrtLess(Norm2(a) - Norm2(b), Norm2(center),
                  2 * Unit * k * (Dot(center, a) - Dot(center, b)))

\* C5 (as stated): in every round the selected sample minimises the distance
\* between the class mean and the plain average
\* (feature(c) + sum of selected) / (i + 1).
C5_Original ==
    h_pc = "done" =>
        /\ Len(h_out) = Min(h_m, Len(h_raw))
        /\ \A i \in 1..Len(h_out) :
              /\ h_out[i] \in HRemaining(i)
              /\ \A c \in HRemaining(i) :
                    ~AverageDistLess(HClassMean,
                                     VAdd(HFeat(c), HSelectedSum(i)),
                                     VAdd(HFeat(h_out[i]), HSelectedSum(i)), i)

\* C5 (amended): in every round the selected sample minimises the distance
\* between the class mean and the L2-normalised average; in the first round
\* (hence for m = 1) this is the sample whose feature is closest to the class
\* mean; min(m, #samples) rounds run and indexes are stored in selection order.
C5_Herding ==
    h_pc = "done" =>
        /\ Len(h_out) = Min(h_m, Len(h_raw))
        /\ \A i \in 1..Len(h_out) :
              /\ h_out[i] \in HRemaining(i)
              /\ \A c \in HRemaining(i) :
                    ~NormalizedDistLess(HClassMean,
                                        VAdd(HFeat(c), HSelectedSum(i)),
                                        VAdd(HFeat(h_out[i]), HSelectedSum(i)))
        /\ Len(h_out) >= 1 =>
              \A c \in Range(h_idxes) :
                    ~AverageDistLess(HClassMean, HFeat(c), HFeat(h_out[1]), 1)

C5_Witness ==
    /\ h_pc = "done" /\ Len(h_raw) = 3 /\ Len(h_out) = 3
    /\ h_out[1] # h_idxes[1]
    /\ \E c \in HRemaining(2) :
          NormalizedDistLess(HClassMean, VAdd(HFeat(h_out[2]), HSelectedSum(2)),
                             VAdd(HFeat(c), HSelectedSum(2)))

\* ------------------------------------------------------------------------
\* Specification Spec: the ICarl learner over a sequence of tasks
\* ------------------------------------------------------------------------
MaxEval == 2         \* samples of an evaluation loader

\* Mutant: the budget is rounded up.
M_Mut(k, n_classes) == (k + n_classes - 1) \div n_classes

\* @property _m: self._k // self._n_classes
M(k, n_classes) == k \div n_classes

\* Mutant: the slice keeps one entry too many.
ReduceExamplars_OffByOne(examplars, m) ==
    [class_idx \in 0..(Cardinality(DOMAIN examplars) - 1) |->
        SubSeq(examplars[class_idx], 1, Min(m + 1, Len(examplars[class_idx])))]

\* Mutant: the slice keeps the last m entries ([-m:] for m > 0).
ReduceExamplars_Tail(examplars, m) ==
    [class_idx \in 0..(Cardinality(DOMAIN examplars) - 1) |->
        LET L == examplars[class_idx]
        IN SubSeq(L, Len(L) - Min(m, Len(L)) + 1, Len(L))]

\* _reduce_examplars: for class_idx in range(len(examplars)):
\*     examplars[class_idx] = examplars[class_idx][: m]
ReduceExamplars(examplars, m) ==
    [class_idx \in 0..(Cardinality(DOMAIN examplars) - 1) |->
        SubSeq(examplars[class_idx], 1, Min(m, Len(examplars[class_idx])))]

\* Every exemplar list the herding loop can produce for a class of n samples
\* under budget m, over all raw features and loader orders (class 0 layout).
HerdTable ==
    [n \in 1..MaxSamples |-> [m \in 0..MaxMemory |->
        {Herd(raw, idxes, m) : raw \in [1..n -> RawFeatures],
                               idxes \in LoaderOrders(0, n)}]]

\* The lists the herding loop can produce for a class of any size.
HerdOutcomes(m) == UNION {HerdTable[n][m] : n \in 1..MaxSamples}

\* The same list for class c: the j-th sample of class c in place of the
\* j-th sample of class 0.
ForClass(c, o) == [i \in 1..Len(o) |-> SampleIdx(c, o[i] - SampleIdx(0, 0))]

\* Mutant: the means of the classes below the task boundary are not rebuilt.
BuildExamplars_NoOldMeans(examplars, means, task, task_size, n_classes, new) ==
    LET boundary == task * task_size
    IN IF \E class_idx \in 0..(boundary - 1) : examplars[class_idx] = <<>>
       THEN [raised |-> TRUE, examplars |-> examplars, means |-> means]
       ELSE [raised |-> FALSE,
             examplars |-> [class_idx \in 0..(n_classes - 1) |->
                              IF class_idx < boundary THEN examplars[class_idx]
                              ELSE new[class_idx]],
             means |-> [built |-> TRUE,
                        rows |-> [row \in 1..(n_classes - boundary) |->
                                    new[boundary + row - 1]]]]

\* _build_examplars.  `new` gives, for each new class, what the herding loop
\* selected.  A mean is represented by the list of sample indexes whose
\* features were averaged.  For an old class whose exemplar list is empty the
\* loader yields nothing and torch.cat([]) in _extract_features raises.
BuildExamplars(examplars, means, task, task_size, n_classes, new) ==
    LET boundary == task * task_size
    IN IF \E class_idx \in 0..(boundary - 1) : examplars[class_idx] = <<>>
       THEN [raised |-> TRUE, examplars |-> examplars, means |-> means]
       ELSE [raised |-> FALSE,
             examplars |-> [class_idx \in 0..(n_classes - 1) |->
                              IF class_idx < boundary THEN examplars[class_idx]
                              ELSE new[class_idx]],
             means |-> [built |-> TRUE,
                        rows |-> [row \in 1..n_classes |->
                                    IF row - 1 < boundary THEN examplars[row - 1]
                                    ELSE new[row - 1]]]]

\* _add_n_classes
AddNClasses(n_classes, n) == n_classes + n

\* Mutant: the row count of the means is not compared with the class count.
ClassifyStatus_Mut(means, n_classes) ==
    IF means = None THEN "MeansNotBuilt" ELSE "ok"

\* _classify: the two checks, then one prediction per sample of the loader
\* (argmin over the rows of the means).
ClassifyStatus(means, n_classes) ==
    IF means = None THEN "MeansNotBuilt"
    ELSE IF Len(means.rows) # n_classes THEN "MeanCountMismatch"
    ELSE "ok"

\* The loop of _classify: each batch extends ypred by the labels _get_closest
\* returns, one per feature of the batch, and ytrue by the batch's targets.
RECURSIVE ClassifyLoop(_, _)
ClassifyLoop(data_loader, out) ==
    IF data_loader = <<>> THEN out
    ELSE LET preds == Head(data_loader)
             targets == Head(data_loader)
         IN ClassifyLoop(Tail(data_loader),
                         Outcome(out.status, out.ypred + preds, out.ytrue + targets))

\* Evaluation loaders: up to MaxEval batches of one or two samples.
EvalLoaders == UNION {[1..b -> 1..2] : b \in 0..MaxEval}

Init ==
    /\ HerdIdle /\ TripletIdle /\ LossIdle /\ GorIdle /\ DmrIdle
    /\ _k \in 0..MaxMemory
    /\ _task_size \in 1..MaxIncrement
    /\ _n_classes = _task_size
    /\ _task = 0
    /\ _examplars = <<>>
    /\ _means = None
    /\ phase = "new"
    /\ task_ends = <<>>
    /\ last_op = "init"
    /\ ret = NoOutcome

\* set_task_info of the base learner: the next task starts.
SetTaskInfo ==
    /\ phase = "ended"
    /\ _task + 1 < MaxTasks
    /\ _task' = _task + 1
    /\ phase' = "new"
    /\ last_op' = "set_task_info"
    /\ ret' = NoOutcome
    /\ UNCHANGED <<_k, _task_size, _n_classes, _examplars, _means, task_ends,
                   herdVars, tripletVars, lossVars, gorVars, dmrVars>>

BeforeTask ==
    /\ phase = "new"
    /\ _n_classes' = IF _task = 0 THEN _n_classes
                     ELSE AddNClasses(_n_classes, _task_size)
    /\ phase' = "before"
    /\ last_op' = "before_task"
    /\ ret' = NoOutcome
    /\ UNCHANGED <<_k, _task_size, _task, _examplars, _means, task_ends,
                   herdVars, tripletVars, lossVars, gorVars, dmrVars>>

TrainTask ==
    /\ phase = "before"
    /\ phase' = "trained"
    /\ last_op' = "train_task"
    /\ ret' = NoOutcome
    /\ UNCHANGED <<_k, _task_size, _n_classes, _task, _examplars, _means,
                   task_ends, herdVars, tripletVars, lossVars, gorVars, dmrVars>>

\* _after_task: _reduce_examplars() then _build_examplars(loader).
AfterTask ==
    /\ phase = "trained"
    /\ LET m == M(_k, _n_classes)
           reduced == ReduceExamplars(_examplars, m)
           new_classes == (_task * _task_size)..(_n_classes - 1)
       IN \E herded \in [new_classes -> HerdOutcomes(m)] :
                LET new == [c \in new_classes |-> ForClass(c, herded[c])]
                    built == BuildExamplars(reduced, _means, _task, _task_size,
                                            _n_classes, new)
                IN /\ _examplars' = built.examplars
                   /\ _means' = built.means
                   /\ IF built.raised
                      THEN /\ phase' = "failed"
                           /\ ret' = Outcome("RuntimeError", 0, 0)
                           /\ UNCHANGED task_ends
                      ELSE /\ phase' = "ended"
                           /\ ret' = NoOutcome
                           /\ task_ends' = Append(task_ends, built.examplars)
    /\ last_op' = "after_task"
    /\ UNCHANGED <<_k, _task_size, _n_classes, _task, herdVars, tripletVars, lossVars, gorVars, dmrVars>>

\* _classify(data_loader): the loader yields batches (given by their sizes).
Classify ==
    /\ phase # "idle"
    /\ LET status == ClassifyStatus(_means, _n_classes)
       IN IF status # "ok"
          THEN ret' = Outcome(status, 0, 0)
          ELSE \E data_loader \in EvalLoaders :
                  ret' = ClassifyLoop(data_loader, Outcome("ok", 0, 0))
    /\ last_op' = "classify"
    /\ UNCHANGED <<_k, _task_size, _n_classes, _task, _examplars, _means, phase,
                   task_ends, herdVars, tripletVars, lossVars, gorVars, dmrVars>>

Next == SetTaskInfo \/ BeforeTask \/ TrainTask \/ AfterTask \/ Classify
Spec == Init /\ [][Next]_vars

\* ------------------------------------------------------------------------
\* Properties of the ICarl learner (specification Spec)
\* ------------------------------------------------------------------------
RECURSIVE TotalExamplars(_, _)
TotalExamplars(examplars, n) ==
    IF n = 0 THEN 0
    ELSE Len(examplars[n - 1]) + TotalExamplars(examplars, n - 1)

IsAfterTaskStep == last_op' = "after_task" /\ phase = "trained"

\* C1: _reduce_examplars is a prefix truncation: at a task end the list L of
\* every class that already has one becomes the first min(m, |L|) entries of
\* L in the same order, with m = memory_size // n_classes.
C1_PrefixTruncation ==
    [][IsAfterTaskStep =>
          \A c \in DOMAIN _examplars :
              /\ c \in DOMAIN _examplars'
              /\ Len(_examplars'[c]) = Min(_k \div _n_classes, Len(_examplars[c]))
              /\ \A i \in 1..Len(_examplars'[c]) : _examplars'[c][i] = _examplars[c][i]]_vars

\* A class held three exemplars not in index order and was cut to its first two.
C1_Witness ==
    /\ Len(task_ends) >= 2
    /\ Len(task_ends[1][0]) = 3
    /\ task_ends[1][0][1] > task_ends[1][0][2]
    /\ task_ends[2][0] = <<task_ends[1][0][1], task_ends[1][0][2]>>

\* C2: after every completed task end every class holds at most
\* m = memory_size // n_classes exemplars and the memory holds at most
\* memory_size exemplars in total.
C2_MemoryBounded ==
    phase = "ended" =>
        /\ DOMAIN _examplars = 0..(_n_classes - 1)
        /\ \A c \in DOMAIN _examplars : Len(_examplars[c]) <= _k \div _n_classes
        /\ TotalExamplars(_examplars, _n_classes) <= _k

\* The memory is full after a later task end, with an old class cut down.
C2_Witness ==
    /\ phase = "ended" /\ _task >= 1 /\ _k = MaxMemory
    /\ TotalExamplars(_examplars, _n_classes) = _k
    /\ Len(task_ends[1][0]) > Len(_examplars[0])

\* C3: the list of a class is created once, by the task end that introduces
\* the class; every later step leaves it a prefix of what it was; at any later
\* task end it is a prefix of its value at every earlier task end; and a task
\* end leaves the lists of the classes below the task boundary as the
\* truncation made them.
C3_Lifecycle ==
    /\ [][/\ \A c \in DOMAIN _examplars :
                /\ c \in DOMAIN _examplars'
                /\ IsPrefix(_examplars'[c], _examplars[c])
          /\ DOMAIN _examplars' # DOMAIN _examplars =>
                /\ IsAfterTaskStep
                /\ DOMAIN _examplars = 0..(_task * _task_size - 1)
                /\ DOMAIN _examplars' = 0..(_n_classes - 1)
          /\ (IsAfterTaskStep /\ phase' = "ended") =>
                /\ Len(task_ends') = _task + 1
                /\ task_ends'[_task + 1] = _examplars'
                /\ \A c \in 0..(_task * _task_size - 1) :
                      _examplars'[c] = Take(_examplars[c], _k \div _n_classes)]_vars
    /\ [](\A j \in 1..Len(task_ends) : \A i \in 1..(j - 1) :
             \A c \in DOMAIN task_ends[i] :
                 /\ c \in DOMAIN task_ends[j]
                 /\ IsPrefix(task_ends[j][c], task_ends[i][c]))

\* Populated with three exemplars, then reduced at each of two later task ends.
C3_Witness ==
    /\ Len(task_ends) = 3
    /\ Len(task_ends[1][0]) = 3
    /\ Len(task_ends[2][0]) = 2
    /\ Len(task_ends[3][0]) = 1
    /\ Len(task_ends[3][2]) = 1

BeforeTaskEnd == phase \in {"before", "trained"} /\ _task > 0

\* C6: _classify raises MeansNotBuilt while no means exist (any call before
\* the first task end), raises MeanCountMismatch when the number of means
\* differs from the class count (between the before_task of a later task and
\* its end); in both cases nothing is returned and no state changes;
\* otherwise it returns one prediction per sample.
C6_ClassifyErrors ==
    /\ [][last_op' = "classify" =>
            /\ _means = None => ret'.status = "MeansNotBuilt"
            /\ (_means # None /\ Len(_means.rows) # _n_classes) =>
                   ret'.status = "MeanCountMismatch"
            /\ (_means # None /\ Len(_means.rows) = _n_classes) =>
                   /\ ret'.status = "ok"
                   /\ ret'.ypred = ret'.ytrue
            /\ ret'.status # "ok" => ret'.ypred = 0
            /\ UNCHANGED <<_k, _task_size, _n_classes, _task, _examplars,
                           _means, phase>>]_vars
    /\ [](task_ends = <<>> /\ phase # "failed" => _means = None)
    /\ [](BeforeTaskEnd => _means # None /\ Len(_means.rows) # _n_classes)

C6_Witness ==
    /\ last_op = "classify" /\ ret.status = "MeanCountMismatch"
    /\ phase = "trained" /\ _task = 1

\* C17: a completed task end leaves one mean per known class, in class
\* order: for a class below the task boundary the mean of its exemplar list
\* as truncated by _reduce_examplars, for a new class the mean of the list
\* just built; so _classify right after a completed task end raises neither
\* error.
C17_MeansRebuilt ==
    /\ [][(IsAfterTaskStep /\ phase' = "ended") =>
            /\ _means'.built
            /\ Len(_means'.rows) = _n_classes'
            /\ DOMAIN _examplars' = 0..(_n_classes' - 1)
            /\ \A c \in 0..(_n_classes' - 1) : _means'.rows[c + 1] = _examplars'[c]
            /\ \A c \in 0..(_task * _task_size - 1) :
                  _means'.rows[c + 1] = Take(_examplars[c], M(_k, _n_classes))]_vars
    /\ [](phase = "ended" => ClassifyStatus(_means, _n_classes) = "ok")
    /\ [][(phase = "ended" /\ last_op' = "classify") => ret'.status = "ok"]_vars

\* After the second task end class 0 was cut down, its mean rebuilt, and
\* _classify returned.
C17_Witness ==
    /\ phase = "ended" /\ _task = 1 /\ last_op = "classify" /\ ret.status = "ok"
    /\ Len(_means.rows) = _n_classes
    /\ Len(task_ends) = 2
    /\ Len(task_ends[2][0]) < Len(task_ends[1][0])
    /\ _means.rows[1] = task_ends[2][0]

\* ------------------------------------------------------------------------
\* Properties of the herding loop (specification SpecHerd)
\* ------------------------------------------------------------------------
\* C4: the exemplar list built for a new class has pairwise distinct entries,
\* all of them indexes of samples of that class.
C4_NoDuplicates ==
    h_pc = "done" =>
        /\ \A i \in 1..Len(h_out) : h_out[i] \in ClassIdxes(1, Len(h_raw))
        /\ \A i \in 1..Len(h_out) : \A j \in 1..Len(h_out) :
              i # j => h_out[i] # h_out[j]

\* Two samples with the same feature are both selected, the first one first.
C4_Witness ==
    /\ h_pc = "done" /\ Len(h_out) = 3
    /\ h_raw[1] = h_raw[2] /\ h_raw[2] = h_raw[3]
    /\ h_idxes[1] > h_idxes[2]

\* ------------------------------------------------------------------------
\* metrics.py: _triplet_random_sampling (specification SpecRandom)
\* ------------------------------------------------------------------------
Labels == {0, 1, 2}

\* np.where(cond)[0]: the 0-based positions of `targets` whose label is in S.
Where(targets, S) == {i \in 0..(Len(targets) - 1) : targets[i + 1] \in S}

\* np.random.choice(a, size=2, replace=len(a) < 2): an ordered pair, of two
\* different entries unless a has a single entry.
Choice2(a) ==
    IF Cardinality(a) < 2 THEN {<<x, x>> : x \in a}
    ELSE {<<x, y>> : x \in a, y \in a} \ {<<x, x>> : x \in a}

\* Mutant: the negative is drawn from the whole batch.
RowDraws_Mut(targets, target) ==
    {<<poss[1], poss[2], neg>> :
        poss \in Choice2(Where(targets, {target})),
        neg \in Where(targets, Labels)}

\* The draws of one iteration of the loop over `targets`: poss[0], poss[1] and
\* neg[0].  np.random.choice raises ValueError on an empty population.
RowDraws(targets, target) ==
    {<<poss[1], poss[2], neg>> :
        poss \in Choice2(Where(targets, {target})),
        neg \in Where(targets, Labels \ {target})}

\* Every result of the loop from row i on (rows are 1-based here).
RECURSIVE RandomLoop(_, _, _)
RandomLoop(targets, i, out) ==
    IF i > Len(targets) THEN {out}
    ELSE IF Where(targets, Labels \ {targets[i]}) = {} THEN {Raised("ValueError")}
    ELSE UNION {RandomLoop(targets, i + 1,
                           Triplets("ok", Append(out.anchor_indexes, d[1]),
                                    Append(out.pos_indexes, d[2]),
                                    Append(out.neg_indexes, d[3])))
                : d \in RowDraws(targets, targets[i])}

TripletRandomSampling(targets) ==
    RandomLoop(targets, 1, Triplets("ok", <<>>, <<>>, <<>>))

InitRandom ==
    /\ IcarlIdle /\ HerdIdle /\ LossIdle /\ GorIdle /\ DmrIdle
    /\ t_pc = "start"
    /\ \E n \in 0..MaxBatch : t_targets \in [1..n -> Labels]
    /\ t_features = <<>>
    /\ t_distance = "none"
    /\ t_semihard = FALSE
    /\ t_out = NoTriplets

RandomSampling ==
    /\ t_pc = "start"
    /\ t_out' \in TripletRandomSampling(t_targets)
    /\ t_pc' = "done"
    /\ UNCHANGED <<t_targets, t_features, t_distance, t_semihard, icarlVars, herdVars,
                   lossVars, gorVars, dmrVars>>

NextRandom == RandomSampling
SpecRandom == InitRandom /\ [][NextRandom]_vars

InBounds(seq, n) == \A i \in 1..Len(seq) : seq[i] \in 0..(n - 1)
LabelOf(idx) == t_targets[idx + 1]

TripletShape(n) ==
    /\ t_out.status = "ok"
    /\ Len(t_out.anchor_indexes) = n
    /\ Len(t_out.pos_indexes) = n
    /\ Len(t_out.neg_indexes) = n
    /\ InBounds(t_out.anchor_indexes, Len(t_targets))
    /\ InBounds(t_out.pos_indexes, Len(t_targets))
    /\ InBounds(t_out.neg_indexes, Len(t_targets))

RowLabels ==
    \A i \in 1..Len(t_out.anchor_indexes) :
        /\ LabelOf(t_out.pos_indexes[i]) = LabelOf(t_out.anchor_indexes[i])
        /\ LabelOf(t_out.neg_indexes[i]) # LabelOf(t_out.anchor_indexes[i])

C8_AnchorIsRow ==
    (t_pc = "done" /\ t_out.status = "ok") =>
        \A i \in 1..Len(t_out.anchor_indexes) :
            /\ t_out.anchor_indexes[i] = i - 1
            /\ t_out.pos_indexes[i] = t_out.anchor_indexes[i] =>
                   Cardinality(Where(t_targets, {t_targets[i]})) = 1

\* ------------------------------------------------------------------------
\* metrics.py: triplet_loss, sampling type "3third" (specification SpecFixed3)
\* ------------------------------------------------------------------------
\* torch.arange(n)
Arange(n) == [i \in 1..n |-> i - 1]

\* seq[start::step] of Python (0-based start).
Stride(seq, start, step) ==
    LET count == IF Len(seq) <= start THEN 0
                 ELSE (Len(seq) - start + step - 1) \div step
    IN [j \in 1..count |-> seq[start + (j - 1) * step + 1]]

\* Mutant: the positive and negative slices are swapped.
Fixed3Sampling_Mut(n) ==
    IF n % 3 # 0 THEN Raised("AssertionError")
    ELSE LET indexes == Arange(n)
         IN Triplets("ok", Stride(indexes, 0, 3), Stride(indexes, 2, 3),
                     Stride(indexes, 1, 3))

\* assert len(features) % 3 == 0; indexes[0::3], indexes[1::3], indexes[2::3]
Fixed3Sampling(n) ==
    IF n % 3 # 0 THEN Raised("AssertionError")
    ELSE LET indexes == Arange(n)
         IN Triplets("ok", Stride(indexes, 0, 3), Stride(indexes, 1, 3),
                     Stride(indexes, 2, 3))

InitFixed3 ==
    /\ IcarlIdle /\ HerdIdle /\ LossIdle /\ GorIdle /\ DmrIdle
    /\ t_pc = "start"
    /\ \E n \in 0..MaxBatch3 : t_targets \in [1..n -> {0, 1}]
    /\ t_features = <<>>
    /\ t_distance = "none"
    /\ t_semihard = FALSE
    /\ t_out = NoTriplets

Fixed3 ==
    /\ t_pc = "start"
    /\ t_out' = Fixed3Sampling(Len(t_targets))
    /\ t_pc' = "done"
    /\ UNCHANGED <<t_targets, t_features, t_distance, t_semihard, icarlVars, herdVars,
                   lossVars, gorVars, dmrVars>>

NextFixed3 == Fixed3
SpecFixed3 == InitFixed3 /\ [][NextFixed3]_vars

\* C9: "3third" sampling ignores labels: a batch of size N divisible by 3
\* gives the N/3 triples (3k, 3k+1, 3k+2), so anchors are the indexes
\* congruent to 0 mod 3, positives to 1, negatives to 2; any other N raises
\* and nothing is returned.
C9_Fixed3 ==
    t_pc = "done" =>
        LET n == Len(t_targets)
        IN IF n % 3 = 0
           THEN /\ t_out.status = "ok"
                /\ Len(t_out.anchor_indexes) = n \div 3
                /\ Len(t_out.pos_indexes) = n \div 3
                /\ Len(t_out.neg_indexes) = n \div 3
                /\ \A j \in 1..(n \div 3) :
                      /\ t_out.anchor_indexes[j] = 3 * (j - 1)
                      /\ t_out.pos_indexes[j] = 3 * (j - 1) + 1
                      /\ t_out.neg_indexes[j] = 3 * (j - 1) + 2
                /\ Range(t_out.anchor_indexes) = {i \in 0..(n - 1) : i % 3 = 0}
                /\ Range(t_out.pos_indexes) = {i \in 0..(n - 1) : i % 3 = 1}
                /\ Range(t_out.neg_indexes) = {i \in 0..(n - 1) : i % 3 = 2}
           ELSE t_out = Raised("AssertionError")

\* A batch of nine samples of mixed labels gives {0,3,6}, {1,4,7}, {2,5,8}.
C9_Witness ==
    /\ t_pc = "done" /\ Len(t_targets) = 9
    /\ t_targets[1] # t_targets[2] /\ t_targets[1] = t_targets[3]
    /\ t_out.anchor_indexes = <<0, 3, 6>>
    /\ t_out.pos_indexes = <<1, 4, 7>>
    /\ t_out.neg_indexes = <<2, 5, 8>>

\* ------------------------------------------------------------------------
\* metrics.py: _triplet_facenet_sampling (specification SpecFacenet)
\* ------------------------------------------------------------------------
BatchPoints == {<<0, 0>>, <<1, 0>>, <<0, 2>>, <<3, 3>>}
Abs(x) == IF x < 0 THEN -x ELSE x

\* Feature points of the triplet loss batches: every pairwise Euclidean
\* distance and every norm is an integer.
LossPoints == {<<0, 0>>, <<3, 0>>, <<3, 4>>}
SqDist(a, b) == (a[1] - b[1]) * (a[1] - b[1]) + (a[2] - b[2]) * (a[2] - b[2])
\* cos(a, b) = a.b / max(|a| |b|, eps) is the fraction Dot(a, b) / (|a| |b|),
\* and 0 when a or b is the zero vector.
IsCosScale(u) ==
    \A a, b \in LossPoints \ {<<0, 0>>} :
        (u * Dot(a, b)) % (ISqrt(Norm2(a)) * ISqrt(Norm2(b))) = 0
\* Distances and margins of the triplet loss are counted in units of
\* 1 / DistScale, the least scale that makes every cosine an integer.
DistScale == CHOOSE u \in 1..10 : IsCosScale(u) /\ \A v \in 1..(u - 1) : ~IsCosScale(v)
\* DistScale * cosine_similarity(a, b)
CosSim(a, b) ==
    IF IsZero(a) \/ IsZero(b) THEN 0
    ELSE (DistScale * Dot(a, b)) \div (ISqrt(Norm2(a)) * ISqrt(Norm2(b)))

\* _dense_distance: "l2", "l2squared" and "l1" are exact on integer points
\* ("l2" on points at integer distances); "cosine" is the matrix of cosine
\* similarities, here multiplied by DistScale.
DenseDistance(features, distance_type) ==
    [i \in 0..(Len(features) - 1) |-> [j \in 0..(Len(features) - 1) |->
        LET a == features[i + 1]
            b == features[j + 1]
        IN IF distance_type = "l2" THEN ISqrt(SqDist(a, b))
           ELSE IF distance_type = "l2squared" THEN SqDist(a, b)
           ELSE IF distance_type = "cosine" THEN CosSim(a, b)
           ELSE Abs(a[1] - b[1]) + Abs(a[2] - b[2])]]

\* A set of integers as an ascending list (np.where(...)[0].tolist()).
RECURSIVE SortedSeq(_)
SortedSeq(S) ==
    IF S = {} THEN <<>>
    ELSE LET x == CHOOSE y \in S : \A z \in S : y <= z
         IN <<x>> \o SortedSeq(S \ {x})

\* list(itertools.combinations(indexes, 2))
RECURSIVE Combinations2(_)
Combinations2(indexes) ==
    IF Len(indexes) <= 1 THEN <<>>
    ELSE [j \in 1..(Len(indexes) - 1) |-> <<indexes[1], indexes[j + 1]>>]
         \o Combinations2(Tail(indexes))

\* pairwise_distances[indexes.repeat_interleave(nb_neg), neg_indexes.repeat(1, nb_pos)[0]]:
\* a one-dimensional tensor of nb_pos * nb_neg entries (0-based function).
AnDist(D, indexes, neg_indexes) ==
    LET nb_pos == Len(indexes)
        nb_neg == Len(neg_indexes)
    IN [e \in 0..(nb_pos * nb_neg - 1) |->
           D[indexes[(e \div nb_neg) + 1]][neg_indexes[(e % nb_neg) + 1]]]

\* The loop `for i in range(len(ap_dist))` of the semi-hard branch.  an_dist[i]
\* is one entry of the flat tensor; the mask over it has a single element, so
\* argmax() is 0 and the negative appended is neg_indexes[0].
RECURSIVE SemiHardLoop(_, _, _, _, _, _)
SemiHardLoop(D, positive_pairs, an_dist, neg_indexes, i, out) ==
    IF i >= Len(positive_pairs) THEN out
    ELSE IF i \notin DOMAIN an_dist THEN Raised("IndexError")
    ELSE LET pair == positive_pairs[i + 1]
             ap_dist == D[pair[1]][pair[2]]
         IN SemiHardLoop(D, positive_pairs, an_dist, neg_indexes, i + 1,
                IF ap_dist < an_dist[i]
                THEN Triplets("ok", Append(out.anchor_indexes, pair[1]),
                              Append(out.pos_indexes, pair[2]),
                              Append(out.neg_indexes, neg_indexes[1]))
                ELSE out)

\* np.random.choice(neg_indexes, size=k, replace=False)
ChoiceNoReplace(neg_indexes, k) ==
    {c \in [1..k -> Range(neg_indexes)] : \A i, j \in 1..k : i # j => c[i] # c[j]}

\* The body of the loop over the classes of the batch: the triples one class
\* contributes, or the error raised.  With no same-class pair,
\* torch.tensor([]) is a float tensor and indexing with it raises IndexError
\* in torch builds that check the index type of an empty tensor; the model
\* allows both outcomes.
FacenetClass(D, targets, target, semihard) ==
    LET indexes == SortedSeq(Where(targets, {target}))
        neg_indexes == SortedSeq(Where(targets, Labels \ {target}))
        positive_pairs == Combinations2(indexes)
        empty == Triplets("ok", <<>>, <<>>, <<>>)
    IN IF semihard
       THEN IF positive_pairs = <<>> THEN {Raised("IndexError"), empty}
            ELSE IF neg_indexes = <<>> THEN {Raised("IndexError")}
            ELSE {SemiHardLoop(D, positive_pairs, AnDist(D, indexes, neg_indexes),
                               neg_indexes, 0, empty)}
       ELSE IF Len(positive_pairs) > Len(neg_indexes) THEN {Raised("ValueError")}
            ELSE {Triplets("ok",
                           [j \in 1..Len(positive_pairs) |-> positive_pairs[j][1]],
                           [j \in 1..Len(positive_pairs) |-> positive_pairs[j][2]],
                           negatives)
                  : negatives \in ChoiceNoReplace(neg_indexes, Len(positive_pairs))}

\* for target in set(targets.tolist()): ... extend the three lists.
RECURSIVE FacenetLoop(_, _, _, _, _)
FacenetLoop(D, targets, classes, semihard, out) ==
    IF classes = <<>> THEN {out}
    ELSE UNION {IF r.status # "ok" THEN {r}
                ELSE FacenetLoop(D, targets, Tail(classes), semihard,
                         Triplets("ok", out.anchor_indexes \o r.anchor_indexes,
                                  out.pos_indexes \o r.pos_indexes,
                                  out.neg_indexes \o r.neg_indexes))
                : r \in FacenetClass(D, targets, Head(classes), semihard)}

TripletFacenetSampling(features, targets, semihard, distance) ==
    FacenetLoop(DenseDistance(features, distance), targets,
                SortedSeq(Range(targets)), semihard, Triplets("ok", <<>>, <<>>, <<>>))

InitFacenet ==
    /\ IcarlIdle /\ HerdIdle /\ LossIdle /\ GorIdle /\ DmrIdle
    /\ t_pc = "start"
    /\ \E n \in 0..MaxBatchF :
          /\ t_targets \in [1..n -> {0, 1}]
          /\ t_features \in [1..n -> BatchPoints]
    /\ t_distance \in {"l2squared", "l1"}
    /\ t_semihard \in BOOLEAN
    /\ t_out = NoTriplets

FacenetSampling ==
    /\ t_pc = "start"
    /\ t_out' \in TripletFacenetSampling(t_features, t_targets, t_semihard, t_distance)
    /\ t_pc' = "done"
    /\ UNCHANGED <<t_targets, t_features, t_distance, t_semihard, icarlVars, herdVars,
                   lossVars, gorVars, dmrVars>>

NextFacenet == FacenetSampling
SpecFacenet == InitFacenet /\ [][NextFacenet]_vars

TDist(i, j) == DenseDistance(t_features, t_distance)[i][j]
\* The different-class samples farther from the anchor than the positive.
SemiHardNegatives(a, p) ==
    {n \in Where(t_targets, Labels \ {LabelOf(a)}) : TDist(a, n) > TDist(a, p)}
Occurrences(a, p) ==
    {i \in 1..Len(t_out.anchor_indexes) :
        t_out.anchor_indexes[i] = a /\ t_out.pos_indexes[i] = p}

\* C10: in semi-hard mode every same-class pair (anchor, positive) with a
\* different-class sample farther from the anchor than the positive appears
\* exactly once, with the closest such sample as negative; every other pair
\* is dropped.
C10_SemiHard ==
    (t_pc = "done" /\ t_semihard /\ t_out.status = "ok") =>
        \A a, p \in 0..(Len(t_targets) - 1) :
            (a < p /\ LabelOf(a) = LabelOf(p)) =>
                IF SemiHardNegatives(a, p) = {} THEN Occurrences(a, p) = {}
                ELSE /\ Cardinality(Occurrences(a, p)) = 1
                     /\ \A i \in Occurrences(a, p) :
                           /\ t_out.neg_indexes[i] \in SemiHardNegatives(a, p)
                           /\ \A n \in SemiHardNegatives(a, p) :
                                 TDist(a, t_out.neg_indexes[i]) <= TDist(a, n)

\* ------------------------------------------------------------------------
\* metrics.py: triplet_loss, _triplet, _pair_distance (specification SpecLoss)
\* ------------------------------------------------------------------------
Max(a, b) == IF a > b THEN a ELSE b
RECURSIVE SeqSum(_)
SeqSum(s) == IF s = <<>> THEN 0 ELSE s[1] + SeqSum(Tail(s))

\* Fractions: a + b and the product of an integer with a fraction; NaN
\* propagates.
RAdd(a, b) ==
    IF a.nan \/ b.nan THEN NaN
    ELSE Rat(a.num * b.den + b.num * a.den, a.den * b.den)
RScale(f, a) == IF a.nan THEN NaN ELSE Rat(f * a.num, a.den)

\* torch.mean of a 1-d tensor: NaN for the empty tensor.
TorchMean(xs) == IF Len(xs) = 0 THEN NaN ELSE Rat(SeqSum(xs), Len(xs))

\* features[indexes]
Gather(features, indexes) == [j \in 1..Len(indexes) |-> features[indexes[j] + 1]]

DistanceTypes == {"l2", "l2squared", "l1", "cosine"}
\* _pair_distance, row by row, in units of 1 / DistScale (the eps that
\* F.pairwise_distance adds to the difference is below the resolution of the
\* model).
PairDistance(a, b, distance_type) ==
    [j \in 1..Len(a) |->
        IF distance_type = "l2" THEN DistScale * ISqrt(SqDist(a[j], b[j]))
        ELSE IF distance_type = "l2squared" THEN DistScale * SqDist(a[j], b[j])
        ELSE IF distance_type = "l1"
             THEN DistScale * (Abs(a[j][1] - b[j][1]) + Abs(a[j][2] - b[j][2]))
        ELSE DistScale - CosSim(a[j], b[j])]

\* Mutant: the hinge is not clamped.
Triplet_Mut(pos_distance, neg_distance, margin, aggreg) ==
    LET triplets == [j \in 1..Len(pos_distance) |->
                        margin + pos_distance[j] - neg_distance[j]]
    IN IF aggreg = "mean" THEN TorchMean(triplets)
       ELSE IF aggreg = "sum" THEN Rat(SeqSum(triplets), 1)
       ELSE Rat(SeqSum(triplets),
                Max(Cardinality({j \in 1..Len(triplets) : triplets[j] > 0}), 1))

\* _triplet for the aggregations "mean", "sum" and "adamine".
Triplet(pos_distance, neg_distance, margin, aggreg) ==
    LET triplets == [j \in 1..Len(pos_distance) |->
                        Max(margin + pos_distance[j] - neg_distance[j], 0)]
    IN IF aggreg = "mean" THEN TorchMean(triplets)
       ELSE IF aggreg = "sum" THEN Rat(SeqSum(triplets), 1)
       ELSE Rat(SeqSum(triplets),
                Max(Cardinality({j \in 1..Len(triplets) : triplets[j] > 0}), 1))

\* The sampling branch of triplet_loss: every index triple it can produce,
\* or the error raised.
SampleTriplets(features, targets, sampling, semihard, distance) ==
    IF sampling = "random" THEN TripletRandomSampling(targets)
    ELSE IF sampling = "3third" THEN {Fixed3Sampling(Len(features))}
    ELSE IF sampling = "facenet"
         THEN TripletFacenetSampling(features, targets, semihard, distance)
    ELSE {Raised("ValueError")}

\* The part of triplet_loss after the sampling.
LossOfTriplets(features, tr, distance, ranking, aggreg, margin, factor) ==
    IF distance \notin DistanceTypes \/ aggreg \notin {"mean", "sum", "adamine"}
    THEN Loss("ValueError", Rat(0, 1))
    ELSE LET anchor_features == Gather(features, tr.anchor_indexes)
             pos_features == Gather(features, tr.pos_indexes)
             neg_features == Gather(features, tr.neg_indexes)
             ap_dist == PairDistance(anchor_features, pos_features, distance)
             an_dist == PairDistance(anchor_features, neg_features, distance)
             loss == Triplet(ap_dist, an_dist, margin, aggreg)
             pn_dist == PairDistance(pos_features, neg_features, distance)
         IN Loss("ok", RScale(factor,
                    IF ranking THEN RAdd(loss, Triplet(ap_dist, pn_dist, margin, aggreg))
                    ELSE loss))

\* triplet_loss (normalize=False): the triples sampled and the value returned
\* or the error raised.  The random and facenet samplers build their index
\* tensors with torch.tensor(list): for an empty list that is a float tensor,
\* and features[float tensor] raises IndexError in torch builds that check
\* the index type of an empty tensor; the model allows both outcomes.
TripletLossOutcomes(features, targets, distance, ranking, aggreg, margin, factor, sampling, semihard) ==
    UNION {IF tr.status # "ok"
           THEN {[triplets |-> tr, loss |-> Loss(tr.status, Rat(0, 1))]}
           ELSE {[triplets |-> tr,
                  loss |-> LossOfTriplets(features, tr, distance, ranking, aggreg,
                                          margin, factor)]}
                \cup IF sampling # "3third" /\ tr.anchor_indexes = <<>>
                     THEN {[triplets |-> tr, loss |-> Loss("IndexError", Rat(0, 1))]}
                     ELSE {}
           : tr \in SampleTriplets(features, targets, sampling, semihard, distance)}

\* sampling_config: the type and, for "facenet", the semihard switch.
SamplingConfigs ==
    {[type |-> "random", semihard |-> FALSE], [type |-> "3third", semihard |-> FALSE],
     [type |-> "facenet", semihard |-> FALSE], [type |-> "facenet", semihard |-> TRUE]}
\* margin (in units of 1 / DistScale: 1 is the default 0.2) and factor.
Margins == {-1, 1}
Factors == {-1, 0, 1}

InitLoss ==
    /\ IcarlIdle /\ HerdIdle /\ LossIdle /\ GorIdle /\ DmrIdle
    /\ t_pc = "start"
    /\ \E n \in 0..MaxLossBatch :
          /\ t_targets \in [1..n -> {0, 1}]
          /\ t_features \in [1..n -> LossPoints]
    /\ t_distance = "none"
    /\ t_semihard = FALSE
    /\ t_out = NoTriplets

\* One call of triplet_loss on the batch.
TripletLoss ==
    /\ t_pc = "start"
    /\ \E config \in SamplingConfigs, distance \in DistanceTypes,
          aggreg \in {"mean", "sum", "adamine"}, margin \in Margins,
          factor \in Factors, ranking \in BOOLEAN :
          /\ config.type = "random" => Len(t_targets) <= MaxRandomBatch
          /\ \E o \in TripletLossOutcomes(t_features, t_targets, distance, ranking,
                                          aggreg, margin, factor, config.type,
                                          config.semihard) :
                /\ t_out' = o.triplets
                /\ l_loss' = o.loss
          /\ l_sampling' = config.type
          /\ t_semihard' = config.semihard
          /\ t_distance' = distance
          /\ l_aggreg' = aggreg
          /\ l_margin' = margin
          /\ l_factor' = factor
          /\ l_ranking' = ranking
    /\ t_pc' = "done"
    /\ UNCHANGED <<t_targets, t_features, icarlVars, herdVars, gorVars, dmrVars>>

NextLoss == TripletLoss
SpecLoss == InitLoss /\ [][NextLoss]_vars

Returned == t_pc = "done" /\ l_loss.status = "ok"

GorPoints == {<<1, 0>>, <<1, 1>>}
GorSamplings == {"per_target", "old_vs_new_random", "per_sample", "full"}

\* One iteration of a sampling loop: skipped (`continue`), or one pair drawn
\* out of `draws`; np.random.choice raises ValueError on an empty population.
GorRow(skip, draws) == [skip |-> skip, draws |-> draws]

\* The iterations of the loop of each sampling mode (the loop over the set
\* unique_targets is taken in ascending order).
GorRows(targets, new_classes_index, sampling) ==
    LET unique_targets == SortedSeq(Range(targets))
        news == {j \in 0..(Len(targets) - 1) : targets[j + 1] >= new_classes_index}
    IN IF sampling = "per_target"
       THEN [c \in 1..Len(unique_targets) |->
                GorRow(FALSE,
                       {<<pos, neg>> :
                           pos \in Where(targets, {unique_targets[c]}),
                           neg \in Where(targets, Labels \ {unique_targets[c]})})]
       ELSE IF sampling = "old_vs_new_random"
       THEN [i \in 1..Len(targets) |->
                GorRow(targets[i] >= new_classes_index,
                       {<<i - 1, new_index>> : new_index \in news})]
       ELSE [i \in 1..Len(targets) |->
                GorRow(FALSE,
                       {<<i - 1, neg>> : neg \in Where(targets, Labels \ {targets[i]})})]

\* Every list of pairs the loop can build from iteration i on, or "ValueError".
RECURSIVE GorLoop(_, _, _)
GorLoop(rows, i, pairs) ==
    IF i > Len(rows) THEN {[status |-> "ok", pairs |-> pairs]}
    ELSE IF rows[i].skip THEN GorLoop(rows, i + 1, pairs)
    ELSE IF rows[i].draws = {} THEN {[status |-> "ValueError", pairs |-> <<>>]}
    ELSE UNION {GorLoop(rows, i + 1, Append(pairs, d)) : d \in rows[i].draws}

\* sampling == "full": the set of sorted cross-class pairs, listed in
\* ascending order (the value of the loss does not depend on the order).
GorFullPairs(targets) ==
    LET n == Len(targets)
        pair_indexes == {<<a, b>> \in (0..(n - 1)) \X (0..(n - 1)) :
                            a < b /\ targets[a + 1] # targets[b + 1]}
        codes == SortedSeq({pr[1] * n + pr[2] : pr \in pair_indexes})
    IN [j \in 1..Len(codes) |-> <<codes[j] \div n, codes[j] % n>>]

GorSample(targets, new_classes_index, sampling) ==
    IF sampling = "full" THEN {[status |-> "ok", pairs |-> GorFullPairs(targets)]}
    ELSE IF sampling \in GorSamplings
         THEN GorLoop(GorRows(targets, new_classes_index, sampling), 1, <<>>)
    ELSE {[status |-> "ValueError", pairs |-> <<>>]}

\* torch.sum(torch.mul(positive_features, negative_features), 1), flattened.
\* "per_target" and "per_sample" append arrays of one element, so the index
\* tensors have shape (n, 1), the gathered features (n, 1, dim), and the sum
\* over dimension 1 leaves the dim componentwise products of each pair;
\* the other modes append integers and the sum is the dot product.
Similarities(features, pairs, sampling) ==
    IF sampling \in {"per_target", "per_sample"}
    THEN [e \in 1..(2 * Len(pairs)) |->
             LET pr == pairs[((e - 1) \div 2) + 1]
                 c == ((e - 1) % 2) + 1
             IN features[pr[1] + 1][c] * features[pr[2] + 1][c]]
    ELSE [j \in 1..Len(pairs) |->
             Dot(features[pairs[j][1] + 1], features[pairs[j][2] + 1])]

Squares(xs) == [j \in 1..Len(xs) |-> xs[j] * xs[j]]

\* factor * (mean(s)^2 + clamp(mean(s^2) - 1 / features_dim, min=0)) as one
\* fraction over len(s)^2 * features_dim.
GorValue(features, pairs, sampling, factor) ==
    LET s == Similarities(features, pairs, sampling)
        count == Len(s)
        features_dim == Len(features[1])
        first == SeqSum(s)
        second == SeqSum(Squares(s))
    IN RScale(factor,
              Rat(features_dim * first * first
                  + count * Max(features_dim * second - count, 0),
                  count * count * features_dim))

\* global_orthogonal_regularization (normalize=False): the pairs sampled and
\* the value returned, or the error raised.
GorOutcomes(features, targets, new_classes_index, factor, sampling) ==
    IF Range(targets) = {} THEN {[pairs |-> <<>>, loss |-> Loss("ok", Rat(0, 1))]}
    ELSE {IF o.status # "ok" THEN [pairs |-> <<>>, loss |-> Loss(o.status, Rat(0, 1))]
          ELSE IF Len(o.pairs) = 0 THEN [pairs |-> <<>>, loss |-> Loss("ok", Rat(0, 1))]
          ELSE [pairs |-> o.pairs,
                loss |-> Loss("ok", GorValue(features, o.pairs, sampling, factor))]
          : o \in GorSample(targets, new_classes_index, sampling)}

GorFactors == {1, 2}

InitGor ==
    /\ IcarlIdle /\ HerdIdle /\ TripletIdle /\ LossIdle /\ DmrIdle
    /\ g_pc = "start"
    /\ \E n \in 0..MaxGorBatch :
          /\ g_targets \in [1..n -> Labels]
          /\ g_features \in [1..n -> GorPoints]
    /\ g_new_classes_index = 0
    /\ g_sampling = "none"
    /\ g_factor = 0
    /\ g_pairs = <<>>
    /\ g_loss = NoLoss

\* One call of global_orthogonal_regularization on the batch.
GlobalOrthogonalRegularization ==
    /\ g_pc = "start"
    /\ \E sampling \in GorSamplings, new_classes_index \in 0..Cardinality(Labels),
          factor \in GorFactors :
          /\ \E o \in GorOutcomes(g_features, g_targets, new_classes_index, factor,
                                  sampling) :
                /\ g_pairs' = o.pairs
                /\ g_loss' = o.loss
          /\ g_sampling' = sampling
          /\ g_new_classes_index' = new_classes_index
          /\ g_factor' = factor
    /\ g_pc' = "done"
    /\ UNCHANGED <<g_features, g_targets, icarlVars, herdVars, tripletVars,
                   lossVars, dmrVars>>

NextGor == GlobalOrthogonalRegularization
SpecGor == InitGor /\ [][NextGor]_vars

\* The edge cases of a batch: no class, an empty candidate set for some draw,
\* or no pair to generate.
GorOlds == {j \in 0..(Len(g_targets) - 1) : g_targets[j + 1] < g_new_classes_index}
GorNews == {j \in 0..(Len(g_targets) - 1) : g_targets[j + 1] >= g_new_classes_index}
GorEdgeCase ==
    \/ g_targets = <<>>
    \/ /\ g_sampling \in {"per_target", "per_sample", "full"}
       /\ Cardinality(Range(g_targets)) = 1
    \/ /\ g_sampling = "old_vs_new_random"
       /\ (GorOlds = {} \/ GorNews = {})

\* C12: on every edge case (no class, an empty candidate set, no pair) the
\* call returns a zero loss and raises nothing, in every sampling mode.
C12_ZeroOnEdgeCase ==
    (g_pc = "done" /\ GorEdgeCase) =>
        (g_loss.status = "ok" /\ ~g_loss.value.nan /\ g_loss.value.num = 0)

\* ------------------------------------------------------------------------
\* regularizations.py: double_margin_constrastive_regularization and its
\* masks (specification SpecDmr)
\* ------------------------------------------------------------------------
\* Raw weight rows; F.normalize maps them to unit vectors scaled by Unit.
\* old_weights is not normalised by the function: its rows are the true
\* values multiplied by Unit.
WeightRows == {<<10, 0>>, <<0, 5>>}
\* Distances and margins are counted in units of 1 / DmrScale.
DmrScale == 2 * Unit * Unit

\* A margin argument: None, or a value.
NoMargin == [none |-> TRUE, value |-> 0]
Margin(v) == [none |-> FALSE, value |-> v]

\* _dmr_weights_distance (square=True): |2 - 2 w w^T|, rows and columns
\* 0-based, for rows scaled by Unit.
DmrWeightsDistance(weights) ==
    [i \in 0..(Len(weights) - 1) |-> [j \in 0..(Len(weights) - 1) |->
        Abs(2 * DmrScale - 4 * Dot(weights[i + 1], weights[j + 1]))]]

\* A boolean mask is the set of its True entries.
Square(size) == (0..(size - 1)) \X (0..(size - 1))
\* np.tril_indices(size, k=0): the diagonal and everything below it.
LowerTri(size) == {e \in Square(size) : e[2] <= e[1]}

\* Mutant: the diagonal blocks are not left out.
DmrInterMask_Mut(size, nb_classes, nb_clusters) ==
    {e \in Square(size) :
        \E c \in 0..(nb_classes - 1) :
            /\ c * nb_clusters <= e[1] /\ e[1] < (c + 1) * nb_clusters
            /\ e[2] >= c * nb_clusters}
    \ LowerTri(size)

\* _dmr_inter_mask
DmrInterMask(size, nb_classes, nb_clusters) ==
    {e \in Square(size) :
        \E c \in 0..(nb_classes - 1) :
            /\ c * nb_clusters <= e[1] /\ e[1] < (c + 1) * nb_clusters
            /\ e[2] >= (c + 1) * nb_clusters}
    \ LowerTri(size)

\* _dmr_inter_oldvsnew_mask
DmrInterOldvsnewMask(size, current_index) ==
    {e \in Square(size) : e[1] < current_index /\ e[2] >= current_index}
    \ LowerTri(size)

\* _dmr_intra_mask
DmrIntraMask(size, nb_classes, nb_clusters) ==
    {e \in Square(size) :
        \E c \in 0..(nb_classes - 1) :
            /\ c * nb_clusters <= e[1] /\ e[1] < (c + 1) * nb_clusters
            /\ e[2] < (c + 1) * nb_clusters}
    \ LowerTri(size)

\* The entries a mask selects, in the row-major order of dist[mask].
MaskSeq(mask, size) ==
    LET codes == SortedSeq({e[1] * size + e[2] : e \in mask})
    IN [j \in 1..Len(codes) |-> <<codes[j] \div size, codes[j] % size>>]
\* dist[mask]
Masked(dist, pairs) == [j \in 1..Len(pairs) |-> dist[pairs[j][1]][pairs[j][2]]]

SeqMax(xs) == CHOOSE x \in Range(xs) : \A y \in Range(xs) : y <= x

\* torch.clamp(margin - dist, min=0.) for margins given as fractions
\* num / den over one denominator: the numerators of the hinge terms, and
\* whether some margin is NaN.
Hinge(margins, dists, den) ==
    [nan |-> \E j \in 1..Len(margins) : margins[j].nan,
     nums |-> [j \in 1..Len(margins) |-> Max(margins[j].num - den * dists[j], 0)],
     den |-> den]

\* _dmr_aggreg: a value, or RuntimeError for torch.max of an empty tensor.
DmrAggreg(losses, aggreg_mode) ==
    IF aggreg_mode = "mean"
    THEN Loss("ok", IF losses.nan \/ Len(losses.nums) = 0 THEN NaN
                    ELSE Rat(SeqSum(losses.nums), losses.den * Len(losses.nums)))
    ELSE IF aggreg_mode = "max"
    THEN IF Len(losses.nums) = 0 THEN Loss("RuntimeError", Rat(0, 1))
         ELSE Loss("ok", IF losses.nan THEN NaN
                         ELSE Rat(SeqMax(losses.nums), losses.den))
    ELSE IF aggreg_mode = "adamine"
    THEN Loss("ok", IF losses.nan THEN NaN
                    ELSE Rat(SeqSum(losses.nums),
                             losses.den * Max(Cardinality({j \in 1..Len(losses.nums) :
                                                              losses.nums[j] > 0}), 1)))
    ELSE Loss("NotImplementedError", Rat(0, 1))

\* What the call computed: the pairs of the intra loss, the pairs and the
\* margins of the inter loss, the pairs of the snapshot the adaptive margins
\* come from, and the value returned or the error raised.
DmrOut(status, intra_pairs, inter_pairs, inter_margins, old_pairs, loss) ==
    [status |-> status, intra_pairs |-> intra_pairs, inter_pairs |-> inter_pairs,
     inter_margins |-> inter_margins, old_pairs |-> old_pairs, loss |-> loss]
DmrRaised(error) == DmrOut(error, <<>>, <<>>, <<>>, <<>>, Rat(0, 1))

\* The adaptive margins (max - min) / torch.max(d) * d + min as fractions
\* over torch.max(d); NaN when torch.max(d) = 0 (inf * 0).
AdaptativeMargins(d, adaptative_margin_max, adaptative_margin_min) ==
    [j \in 1..Len(d) |->
        IF SeqMax(d) = 0 THEN NaN
        ELSE Rat((adaptative_margin_max - adaptative_margin_min) * d[j]
                 + adaptative_margin_min * SeqMax(d), SeqMax(d))]

\* Mutant: the check of line 256 is made after the intra loss.
MarginsCheck_Mut(config, K) ==
    config.intra_margin.none /\ config.inter_margin.none /\ K > 1

\* if intra_margin is None and inter_margin is None: raise ValueError
MarginsCheck(config, K) == config.intra_margin.none /\ config.inter_margin.none

\* The inter-class branch (lines 275-315): pairs, margins, snapshot pairs,
\* or the error raised.
DmrInter(dist, size, C, K, current_index, old_weights, config) ==
    IF config.inter_old_vs_new
    THEN LET pairs == MaskSeq(DmrInterOldvsnewMask(size, current_index), size)
         IN DmrOut("ok", <<>>, pairs,
                   [j \in 1..Len(pairs) |-> Rat(config.inter_margin.value, 1)],
                   <<>>, Rat(0, 1))
    ELSE IF config.adaptative_margin /\ old_weights # <<>>
    THEN LET old_dist == DmrWeightsDistance(old_weights)
             nb_old_classes == Len(old_weights) \div K
             old_pairs == MaskSeq(DmrInterMask(Len(old_weights), nb_old_classes, K),
                                  Len(old_weights))
             inter_mask_oldnew ==
                 {e \in DmrInterMask(size, C, K) :
                     e[1] < nb_old_classes * K /\ e[2] < nb_old_classes * K}
             inter_mask_new ==
                 {e \in DmrInterMask(size, C, K) :
                     ~(e[1] < nb_old_classes * K /\ e[2] < nb_old_classes * K)}
             d == Masked(old_dist, old_pairs)
             oldnew_pairs == MaskSeq(inter_mask_oldnew, size)
             new_pairs == MaskSeq(inter_mask_new, size)
         IN IF d = <<>> THEN DmrRaised("RuntimeError")
            ELSE IF Len(oldnew_pairs) # Len(old_pairs) THEN DmrRaised("AssertionError")
            ELSE LET same == SeqMax(d) = 0
                     den == IF same THEN 1 ELSE SeqMax(d)
                 IN DmrOut("ok", <<>>, oldnew_pairs \o new_pairs,
                       AdaptativeMargins(d, config.adaptative_margin_max,
                                         config.adaptative_margin_min)
                       \o [j \in 1..Len(new_pairs) |->
                              Rat(config.inter_margin.value * den, den)],
                       old_pairs, Rat(0, 1))
    ELSE LET pairs == MaskSeq(DmrInterMask(size, C, K), size)
         IN DmrOut("ok", <<>>, pairs,
                   [j \in 1..Len(pairs) |-> Rat(config.inter_margin.value, 1)],
                   <<>>, Rat(0, 1))

\* double_margin_constrastive_regularization (normalize=True, square=True).
DoubleMarginConstrastiveRegularization(raw_weights, current_index, K, old_weights, config) ==
    IF MarginsCheck(config, K) THEN DmrRaised("ValueError")
    ELSE
    LET weights == [i \in 1..Len(raw_weights) |-> Normalize(raw_weights[i])]
        size == Len(weights)
        C == size \div K
        dist == DmrWeightsDistance(weights)
        intra_on == ~config.intra_margin.none /\ K > 1
        intra_pairs == IF intra_on THEN MaskSeq(DmrIntraMask(size, C, K), size)
                       ELSE <<>>
        intra_loss ==
            IF intra_on
            THEN DmrAggreg(Hinge([j \in 1..Len(intra_pairs) |->
                                     Rat(config.intra_margin.value, 1)],
                                 Masked(dist, intra_pairs), 1),
                           config.intra_aggreg)
            ELSE Loss("ok", Rat(0, 1))
        inter_on == /\ ~config.inter_margin.none
                    /\ ~(config.inter_old_vs_new /\ current_index = 0)
        inter == IF inter_on
                 THEN DmrInter(dist, size, C, K, current_index, old_weights, config)
                 ELSE DmrOut("ok", <<>>, <<>>, <<>>, <<>>, Rat(0, 1))
        inter_den == IF inter.inter_margins = <<>> THEN 1
                     ELSE inter.inter_margins[1].den
        inter_loss ==
            IF inter_on
            THEN DmrAggreg(Hinge(inter.inter_margins, Masked(dist, inter.inter_pairs),
                                 inter_den),
                           config.inter_aggreg)
            ELSE Loss("ok", Rat(0, 1))
    IN IF intra_loss.status # "ok" THEN DmrRaised(intra_loss.status)
       ELSE IF inter.status # "ok" THEN DmrRaised(inter.status)
       ELSE IF inter_loss.status # "ok" THEN DmrRaised(inter_loss.status)
       ELSE DmrOut("ok", intra_pairs, inter.inter_pairs, inter.inter_margins,
                   inter.old_pairs,
                   RScale(config.factor, RAdd(intra_loss.value, inter_loss.value)))

DmrAggregs == {"mean", "adamine"}
\* The keyword arguments: margins None or the defaults 0.2 / 0.8, adaptive
\* margins between the defaults 0.5 and 2.0.
DmrConfigs ==
    [intra_margin : {NoMargin, Margin(DmrScale \div 5)},
     inter_margin : {NoMargin, Margin((4 * DmrScale) \div 5)},
     inter_old_vs_new : BOOLEAN,
     adaptative_margin : BOOLEAN,
     adaptative_margin_max : {2 * DmrScale},
     adaptative_margin_min : {DmrScale \div 2},
     intra_aggreg : {"mean"},
     inter_aggreg : DmrAggregs,
     factor : {1}]

\* The weights of C classes with K centers each, current_index classes of
\* which were learned before; old_weights is None (the empty list) or the
\* snapshot of those current_index * K rows.
InitDmr ==
    /\ IcarlIdle /\ HerdIdle /\ TripletIdle /\ LossIdle /\ GorIdle
    /\ d_pc = "start"
    /\ \E C \in 1..MaxRows, K \in 1..MaxRows :
          /\ C * K <= MaxRows
          /\ d_K = K
          /\ d_weights \in [1..(C * K) -> WeightRows]
          /\ d_current_index \in 0..C
          /\ \/ d_old_weights = <<>>
             \/ /\ d_current_index > 0 /\ d_current_index * K <= MaxOldRows
                /\ d_old_weights \in [1..(d_current_index * K) -> WeightRows]
    /\ d_config = <<>>
    /\ d_out = <<>>

\* One call of double_margin_constrastive_regularization.
Dmr ==
    /\ d_pc = "start"
    /\ \E config \in DmrConfigs :
          /\ d_config' = config
          /\ d_out' = DoubleMarginConstrastiveRegularization(
                          d_weights, d_current_index, d_K, d_old_weights, config)
    /\ d_pc' = "done"
    /\ UNCHANGED <<d_weights, d_old_weights, d_K, d_current_index, icarlVars,
                   herdVars, tripletVars, lossVars, gorVars>>

NextDmr == Dmr
SpecDmr == InitDmr /\ [][NextDmr]_vars

DmrDone == d_pc = "done"
DmrSize == Len(d_weights)
DmrC == DmrSize \div d_K
\* The class of a weight row, and the strict upper triangle.
ClassOf(i) == i \div d_K
StrictUpper == {e \in Square(DmrSize) : e[1] < e[2]}
NoRepeat(pairs) == Cardinality(Range(pairs)) = Len(pairs)

\* C13: with inter_old_vs_new the inter loss is over exactly the pairs of one
\* row of an old class (class < current_index) and one row of a new class,
\* each once, and it is skipped when current_index is 0.
C13_OldVsNewPairs ==
    (DmrDone /\ d_config.inter_old_vs_new /\ ~d_config.inter_margin.none
     /\ d_out.status = "ok") =>
        /\ NoRepeat(d_out.inter_pairs)
        /\ Range(d_out.inter_pairs) =
              {e \in StrictUpper : /\ ClassOf(e[1]) < d_current_index
                                   /\ ClassOf(e[2]) >= d_current_index}

\* C14: the call raises ValueError exactly when both margins are None, and
\* then nothing was computed and no loss is returned.
C14_InvalidConfiguration ==
    DmrDone =>
        IF d_config.intra_margin.none /\ d_config.inter_margin.none
        THEN d_out = DmrRaised("ValueError")
        ELSE d_out.status # "ValueError"

\* Both margins None with several centers per class and a snapshot at hand.
C14_Witness ==
    /\ DmrDone /\ d_K >= 2 /\ DmrC >= 2 /\ d_old_weights # <<>>
    /\ d_config.intra_margin.none /\ d_config.inter_margin.none
    /\ d_config.adaptative_margin
    /\ d_out.status = "ValueError"

\* The call computed the intra mask and the plain inter mask.
PlainMasks ==
    /\ DmrDone /\ d_out.status = "ok" /\ d_K > 1
    /\ ~d_config.intra_margin.none /\ ~d_config.inter_margin.none
    /\ ~d_config.inter_old_vs_new
    /\ ~(d_config.adaptative_margin /\ d_old_weights # <<>>)

\* C15: for the C * K rows of the call, the intra mask is the set of pairs
\* i < j of one class, the inter mask the set of pairs i < j of two classes;
\* they are disjoint, inside the strict upper triangle, and cover it; and
\* these are the pairs the intra and inter losses are computed over.
C15_MasksPartition ==
    DmrDone =>
        LET intra == DmrIntraMask(DmrSize, DmrC, d_K)
            inter == DmrInterMask(DmrSize, DmrC, d_K)
        IN /\ intra = {e \in StrictUpper : ClassOf(e[1]) = ClassOf(e[2])}
           /\ inter = {e \in StrictUpper : ClassOf(e[1]) # ClassOf(e[2])}
           /\ intra \cap inter = {}
           /\ intra \cup inter = StrictUpper
           /\ PlainMasks =>
                 /\ Range(d_out.intra_pairs) = intra /\ NoRepeat(d_out.intra_pairs)
                 /\ Range(d_out.inter_pairs) = inter /\ NoRepeat(d_out.inter_pairs)

\* Three classes of two centers: 3 intra pairs and 12 inter pairs.
C15_Witness ==
    /\ PlainMasks /\ d_K = 2 /\ DmrC = 3
    /\ Len(d_out.intra_pairs) = 3 /\ Len(d_out.inter_pairs) = 12

\* The adaptive branch of the inter loss is taken.
AdaptativeMode ==
    /\ DmrDone /\ ~d_config.inter_margin.none /\ ~d_config.inter_old_vs_new
    /\ d_config.adaptative_margin /\ d_old_weights # <<>>
\* a <= num / den <= b for a fraction that is not NaN.
Between(a, r, b) == ~r.nan /\ a * r.den <= r.num /\ r.num <= b * r.den

\* C16: in adaptative_margin mode with a snapshot, the call returns; every
\* inter-class pair of the strict upper triangle is used exactly once; the
\* old-old pairs come first, as many and in the same order as the inter
\* pairs of the snapshot, each with a margin between adaptative_margin_min
\* and adaptative_margin_max; every other pair has the fixed inter_margin.
C16_AdaptativeMargins ==
    AdaptativeMode =>
        LET nb_old == Len(d_old_weights)
            n == Len(d_out.old_pairs)
        IN /\ d_out.status = "ok"
           /\ NoRepeat(d_out.inter_pairs)
           /\ Range(d_out.inter_pairs) =
                 {e \in StrictUpper : ClassOf(e[1]) # ClassOf(e[2])}
           /\ n = Cardinality({e \in StrictUpper :
                                  /\ e[2] < nb_old
                                  /\ ClassOf(e[1]) # ClassOf(e[2])})
           /\ \A j \in 1..Len(d_out.inter_pairs) :
                 IF j <= n
                 THEN /\ d_out.inter_pairs[j] = d_out.old_pairs[j]
                      /\ Between(d_config.adaptative_margin_min,
                                 d_out.inter_margins[j],
                                 d_config.adaptative_margin_max)
                 ELSE /\ d_out.inter_pairs[j][2] >= nb_old
                      /\ Between(d_config.inter_margin.value,
                                 d_out.inter_margins[j],
                                 d_config.inter_margin.value)

====
